---- MODULE Spec2Model ----
(***************************************************************************)
(* The step-driven agent of v2_async_agent.py: the AsyncAgent step         *)
(* machine, the agent_loop driver coroutine, the TASKS registry with       *)
(* submit_task / get_status, and the repl command loop.                    *)
(*                                                                         *)
(* Every coroutine is modelled at the granularity of asyncio: an action is *)
(* the code that runs between two suspension points (await of the model    *)
(* call, await of asyncio.to_thread, await asyncio.sleep(0)).              *)
(*                                                                         *)
(* Spec     : the registry and scheduler on an event loop whose caller     *)
(*            yields between calls of submit_task and get_status.          *)
(* SpecRepl : the program as shipped, driven by repl(), under the          *)
(*            fairness the event loop gives a runnable callback.           *)
(* SpecStep : Spec, plus a caller that invokes step() itself on a task     *)
(*            whose driver has returned.                                   *)
(* SpecBash, SpecFile, SpecRead, SpecTrunc : the tool functions (run_bash, *)
(*            run_command, safe_path, run_read, run_write, run_edit), each *)
(*            applied to inputs drawn from bounded sets.                   *)
(* SpecEquiv: agent_loop of v1_basic_agent.py run beside one step-driven   *)
(*            task on the same model responses and tool results.           *)
(***************************************************************************)
EXTENDS Integers, Sequences, FiniteSets, TLC

\* ------------------------------------------------------------------ bounds
\* Model invocations started over all tasks, at most.
MaxModelCalls == 2
\* Tool calls in one model response, at most.
MaxToolCalls == 2

\* ------------------------------------------------------------------ inputs
\* uuid4 values: the ones submit_task may draw, and one it never returns.
TaskIds == {"t1", "t2"}
UnknownId == "t0"
QueryIds == TaskIds \cup {UnknownId}

\* The prompt of a submission; the prompts typed at the repl.
Prompts == {"p"}
TypedPrompts == {"p", "q", "r"}

\* Python's None as a content value.
None == "None"
SYSTEM == "SYSTEM"

\* reply.content of a model response.
Contents == {None, "a"}

\* tc.function.arguments is JSON text: text json.loads rejects, or an
\* object given by the type of each member.
BadJson == [valid |-> FALSE, members |-> <<>>]
Obj(m) == [valid |-> TRUE, members |-> m]

\* The tool calls a model response is built from: the name is inside or
\* outside the catalog, the payload complete, incomplete, ill-typed or
\* unparseable.
ToolCalls ==
    { [id |-> "c1", name |-> "bash",       arguments |-> Obj([command |-> "str"])],
      [id |-> "c2", name |-> "nosuch",     arguments |-> Obj(<<>>)],
      [id |-> "c3", name |-> "write_file", arguments |-> Obj([path |-> "str"])],
      [id |-> "c4", name |-> "bash",       arguments |-> Obj([command |-> "int"])],
      [id |-> "c5", name |-> "read_file",  arguments |-> BadJson] }

RECURSIVE SeqsOver(_, _)
\* The sequences over S of length n without a repeated call id.
SeqsOver(S, n) ==
    IF n = 0 THEN {<<>>}
    ELSE { Append(s, c) : s \in SeqsOver(S, n - 1), c \in S }

DistinctIds(s) == \A i, j \in 1..Len(s) : i # j => s[i].id # s[j].id

CallLists(S) ==
    { s \in UNION { SeqsOver(S, n) : n \in 1..MaxToolCalls } : DistinctIds(s) }

\* A model response: reply.content and reply.tool_calls.
FinalReplies == { [content |-> c, tool_calls |-> <<>>] : c \in Contents }
ToolReplies(S) == { [content |-> None, tool_calls |-> s] : s \in CallLists(S) }
Replies == FinalReplies \cup ToolReplies(ToolCalls)
NoReply == [content |-> None, tool_calls |-> <<>>]

\* What a tool function run by asyncio.to_thread returns.
ToolTexts == { <<"out">> }

VARIABLES
    TASKS,      \* the registry: task id -> AsyncAgent {done, state, messages}
    pc,         \* where each task's agent_loop coroutine is suspended
    exc,        \* the exception that ended each task's asyncio task
    reply,      \* step()'s local: the response of the current or last step
    idx,        \* step()'s local: the index of tc in reply.tool_calls
    calls,      \* history: model invocations started, per task
    completed,  \* history: step() invocations that returned, per task
    out,        \* what the get_status call just made returned (NoCall after
                \* any other step: the caller has consumed it)
    caller,     \* the coroutine given to asyncio.run: "active" or "returned"
    tool        \* the tool functions' world: the input, the result and the
                \* effects of the tool call under study (NoTool elsewhere)

agent_vars == <<TASKS, pc, exc, reply, idx, calls, completed, out, caller>>
vars == <<TASKS, pc, exc, reply, idx, calls, completed, out, caller, tool>>

\* ------------------------------------------------------------ pure helpers
\* `x or ""` on a content value.
OrEmpty(c) == IF c = None THEN "" ELSE c

Raised(e) == [raised |-> TRUE, exc |-> e, value |-> <<>>]
Value(v) == [raised |-> FALSE, exc |-> "none", value |-> v]

\* json.loads(tc.function.arguments)
json_loads(a) == IF a.valid THEN Value(a.members) ELSE Raised("JSONDecodeError")

Has(args, k) == k \in DOMAIN args

Await == [kind |-> "await", exc |-> "none", text |-> <<>>]
Raise(e) == [kind |-> "raise", exc |-> e, text |-> <<>>]
Return(x) == [kind |-> "return", exc |-> "none", text |-> x]

\* execute_tool up to its first suspension: it raises KeyError on a missing
\* required member, awaits a worker thread for a catalog tool, and returns
\* the text at once for any other name.
execute_tool(name, args) ==
    CASE name = "bash" ->
            IF Has(args, "command") THEN Await ELSE Raise("KeyError")
      [] name = "read_file" ->
            IF Has(args, "path") THEN Await ELSE Raise("KeyError")
      [] name = "write_file" ->
            IF Has(args, "path") /\ Has(args, "content")
            THEN Await ELSE Raise("KeyError")
      [] name = "edit_file" ->
            IF Has(args, "path") /\ Has(args, "old_text") /\ Has(args, "new_text")
            THEN Await ELSE Raise("KeyError")
      [] OTHER -> Return(<<"Unknown tool: ", name>>)

\* run_bash tests `d in command` outside its try block: a command that is
\* not a string raises TypeError from the worker thread.
ThreadRaises(tc) ==
    /\ tc.name = "bash"
    /\ tc.arguments.members["command"] # "str"

AssistantFinal(r) == [role |-> "assistant", content |-> OrEmpty(r.content)]
AssistantCalls(r) ==
    [role |-> "assistant", content |-> OrEmpty(r.content), tool_calls |-> r.tool_calls]
\* Mutant of ToolTurn: the turn is labelled with the tool's name.
ToolTurn_ByName(tc, text) ==
    [role |-> "tool", tool_call_id |-> tc.name, content |-> text]

\* step(), the tool turn appended for tc
ToolTurn(tc, text) == [role |-> "tool", tool_call_id |-> tc.id, content |-> text]

\* Mutant of NewAgent: the conversation is seeded with the prompt alone.
NewAgent_NoSystem(prompt) ==
    [ done |-> FALSE,
      state |-> [status |-> "running", step |-> 0, answer |-> ""],
      messages |-> << [role |-> "user", content |-> prompt] >> ]

\* AsyncAgent.__init__
NewAgent(prompt) ==
    [ done |-> FALSE,
      state |-> [status |-> "running", step |-> 0, answer |-> ""],
      messages |-> << [role |-> "system", content |-> SYSTEM],
                      [role |-> "user", content |-> prompt] >> ]

\* Mutant of CountStep: the counter is left as it was.
CountStep_Skip(agent) == agent

\* step(), `self.state["step"] += 1`
CountStep(agent) == [agent EXCEPT !.state.step = @ + 1]

\* Mutant of Finish: the status written is not one of the lifecycle's.
Finish_StatusDone(agent, r) ==
    [agent EXCEPT !.state.status = "done",
                  !.state.answer = OrEmpty(r.content),
                  !.done = TRUE,
                  !.messages = Append(@, AssistantFinal(r))]

\* Mutant of Finish: `self.done = True` is forgotten.
Finish_NotDone(agent, r) ==
    [agent EXCEPT !.state.status = "finished",
                  !.state.answer = OrEmpty(r.content),
                  !.messages = Append(@, AssistantFinal(r))]

\* Mutant of Finish: the conversation is replaced by the final turn.
Finish_Overwrite(agent, r) ==
    [agent EXCEPT !.state.status = "finished",
                  !.state.answer = OrEmpty(r.content),
                  !.done = TRUE,
                  !.messages = <<AssistantFinal(r)>>]

\* step(), the branch `if not reply.tool_calls`
Finish(agent, r) ==
    [agent EXCEPT !.state.status = "finished",
                  !.state.answer = OrEmpty(r.content),
                  !.done = TRUE,
                  !.messages = Append(@, AssistantFinal(r))]

RECURSIVE ForLoop(_, _, _)
\* The `for tc in reply.tool_calls` loop of step() from index i until it
\* suspends, raises or ends: the messages, i, the coroutine's position and
\* the exception raised.
ForLoop(msgs, tcs, i) ==
    IF i > Len(tcs)
    THEN [messages |-> msgs, idx |-> 0, pc |-> "sleep", exc |-> "none"]
    ELSE LET tc == tcs[i]
             args == json_loads(tc.arguments)
         IN  IF args.raised
             THEN [messages |-> msgs, idx |-> i, pc |-> "raised", exc |-> args.exc]
             ELSE LET r == execute_tool(tc.name, args.value)
                  IN  CASE r.kind = "raise" ->
                              [messages |-> msgs, idx |-> i, pc |-> "raised",
                               exc |-> r.exc]
                        [] r.kind = "await" ->
                              [messages |-> msgs, idx |-> i, pc |-> "tool",
                               exc |-> "none"]
                        [] OTHER ->
                              ForLoop(Append(msgs, ToolTurn(tc, r.text)), tcs, i + 1)

NoCall == [id |-> "", result |-> [error |-> "no call"]]

NotFound == [error |-> "task not found"]

\* Mutant of get_status: TASKS[task_id] instead of TASKS.get(task_id).
get_status_Index(task_id) ==
    IF task_id \notin DOMAIN TASKS THEN [error |-> "KeyError"] ELSE TASKS[task_id].state

\* get_status
get_status(task_id) ==
    IF task_id \notin DOMAIN TASKS THEN NotFound ELSE TASKS[task_id].state

TotalCalls == LET RECURSIVE Sum(_)
                  Sum(S) == IF S = {} THEN 0
                            ELSE LET t == CHOOSE x \in S : TRUE
                                 IN  calls[t] + Sum(S \ {t})
              IN  Sum(TaskIds)

\* Mutant of HoldsLoop: the tool function runs in the event loop's thread.
HoldsLoop_Inline(t) == pc[t] = "tool"

\* A task's coroutine keeps the event loop's thread while it is suspended:
\* never.  step() awaits the model call, execute_tool awaits
\* asyncio.to_thread and agent_loop awaits asyncio.sleep(0).
HoldsLoop(t) == FALSE

\* The event loop's thread is free for the coroutine of t, for the caller.
LoopFree(t) == \A u \in TaskIds \ {t} : ~HoldsLoop(u)
LoopIdle == \A u \in TaskIds : ~HoldsLoop(u)

NoTool == [stage |-> "none"]

\* The registry, the drivers and the caller before the first command.
AgentInit ==
    /\ TASKS = <<>>
    /\ pc = [t \in TaskIds |-> "none"]
    /\ exc = [t \in TaskIds |-> "none"]
    /\ reply = [t \in TaskIds |-> NoReply]
    /\ idx = [t \in TaskIds |-> 0]
    /\ calls = [t \in TaskIds |-> 0]
    /\ completed = [t \in TaskIds |-> 0]
    /\ out = NoCall
    /\ caller = "active"

\* -------------------------------------------------------------------- init
Init ==
    /\ TASKS = <<>>
    /\ pc = [t \in TaskIds |-> "none"]
    /\ exc = [t \in TaskIds |-> "none"]
    /\ reply = [t \in TaskIds |-> NoReply]
    /\ idx = [t \in TaskIds |-> 0]
    /\ calls = [t \in TaskIds |-> 0]
    /\ completed = [t \in TaskIds |-> 0]
    /\ out = NoCall
    /\ caller = "active"
    /\ tool = NoTool

\* ----------------------------------------------------------------- actions
\* submit_task: a fresh id, a new agent in the registry, its agent_loop
\* scheduled by asyncio.create_task (not yet run).
submit_task(prompt, task_id) ==
    /\ caller = "active"
    /\ LoopIdle
    /\ task_id \notin DOMAIN TASKS
    /\ TASKS' = [t \in DOMAIN TASKS \cup {task_id} |->
                    IF t = task_id THEN NewAgent(prompt) ELSE TASKS[t]]
    /\ pc' = [pc EXCEPT ![task_id] = "created"]
    /\ out' = NoCall
    /\ UNCHANGED <<exc, reply, idx, calls, completed, caller, tool>>

\* A caller's get_status(task_id).
Status(task_id) ==
    /\ caller = "active"
    /\ LoopIdle
    /\ out' = [id |-> task_id, result |-> get_status(task_id)]
    /\ UNCHANGED <<TASKS, pc, exc, reply, idx, calls, completed, caller, tool>>

\* agent_loop's `while not agent.done` finds the agent done: the coroutine
\* returns.
LoopExit(t) ==
    /\ pc[t] \in {"created", "sleep"}
    /\ LoopFree(t)
    /\ TASKS[t].done
    /\ pc' = [pc EXCEPT ![t] = "exit"]
    /\ out' = NoCall
    /\ UNCHANGED <<TASKS, exc, reply, idx, calls, completed, caller, tool>>

\* Mutant of StepBegin: step() is entered again while a step is in flight.
StepBegin_Reentrant(t) ==
    /\ pc[t] \in {"created", "sleep", "model"}
    /\ ~TASKS[t].done
    /\ TotalCalls < MaxModelCalls
    /\ TASKS' = [TASKS EXCEPT ![t] = CountStep(@)]
    /\ calls' = [calls EXCEPT ![t] = @ + 1]
    /\ pc' = [pc EXCEPT ![t] = "model"]
    /\ reply' = [reply EXCEPT ![t] = NoReply]
    /\ idx' = [idx EXCEPT ![t] = 0]
    /\ out' = NoCall
    /\ UNCHANGED <<exc, completed, caller, tool>>

\* agent_loop enters step(): the counter is incremented and the model call
\* is awaited.
StepBegin(t) ==
    /\ pc[t] \in {"created", "sleep"}
    /\ LoopFree(t)
    /\ ~TASKS[t].done
    /\ TotalCalls < MaxModelCalls
    /\ TASKS' = [TASKS EXCEPT ![t] = CountStep(@)]
    /\ calls' = [calls EXCEPT ![t] = @ + 1]
    /\ pc' = [pc EXCEPT ![t] = "model"]
    /\ reply' = [reply EXCEPT ![t] = NoReply]
    /\ idx' = [idx EXCEPT ![t] = 0]
    /\ out' = NoCall
    /\ UNCHANGED <<exc, completed, caller, tool>>

\* Mutant of ModelFail: the exception stops every task awaiting the model.
ModelFail_All(t) ==
    /\ pc[t] = "model"
    /\ LoopFree(t)
    /\ pc' = [u \in TaskIds |-> IF pc[u] = "model" THEN "raised" ELSE pc[u]]
    /\ exc' = [u \in TaskIds |-> IF pc[u] = "model" THEN "APIError" ELSE exc[u]]
    /\ out' = NoCall
    /\ UNCHANGED <<TASKS, reply, idx, calls, completed, caller, tool>>

\* The awaited model call raises: step() has no handler and agent_loop has
\* none, so the exception ends the asyncio task, which stores it.
ModelFail(t) ==
    /\ pc[t] = "model"
    /\ LoopFree(t)
    /\ pc' = [pc EXCEPT ![t] = "raised"]
    /\ exc' = [exc EXCEPT ![t] = "APIError"]
    /\ out' = NoCall
    /\ UNCHANGED <<TASKS, reply, idx, calls, completed, caller, tool>>

\* The awaited model call returns r: step() runs on to its next suspension,
\* its return (then agent_loop awaits asyncio.sleep(0)) or a raise.
StepOnReply(t, r) ==
    /\ pc[t] = "model"
    /\ LoopFree(t)
    /\ reply' = [reply EXCEPT ![t] = r]
    /\ IF r.tool_calls = <<>>
       THEN /\ TASKS' = [TASKS EXCEPT ![t] = Finish(@, r)]
            /\ pc' = [pc EXCEPT ![t] = "sleep"]
            /\ completed' = [completed EXCEPT ![t] = @ + 1]
            /\ UNCHANGED <<idx, exc>>
       ELSE LET f == ForLoop(Append(TASKS[t].messages, AssistantCalls(r)),
                             r.tool_calls, 1)
            IN  /\ TASKS' = [TASKS EXCEPT ![t].messages = f.messages]
                /\ pc' = [pc EXCEPT ![t] = f.pc]
                /\ idx' = [idx EXCEPT ![t] = f.idx]
                /\ exc' = [exc EXCEPT ![t] = f.exc]
                /\ completed' = [completed EXCEPT
                                    ![t] = IF f.pc = "sleep" THEN @ + 1 ELSE @]
    /\ out' = NoCall
    /\ UNCHANGED <<calls, caller, tool>>

\* The worker thread returns text: the tool turn is appended, the for loop
\* goes on.
ToolDone(t, text) ==
    /\ pc[t] = "tool"
    /\ LoopFree(t)
    /\ ~ThreadRaises(reply[t].tool_calls[idx[t]])
    /\ LET tcs == reply[t].tool_calls
           f == ForLoop(Append(TASKS[t].messages, ToolTurn(tcs[idx[t]], text)),
                        tcs, idx[t] + 1)
       IN  /\ TASKS' = [TASKS EXCEPT ![t].messages = f.messages]
           /\ pc' = [pc EXCEPT ![t] = f.pc]
           /\ idx' = [idx EXCEPT ![t] = f.idx]
           /\ exc' = [exc EXCEPT ![t] = f.exc]
           /\ completed' = [completed EXCEPT
                               ![t] = IF f.pc = "sleep" THEN @ + 1 ELSE @]
    /\ out' = NoCall
    /\ UNCHANGED <<reply, calls, caller, tool>>

\* The worker thread raises: the exception ends the asyncio task.
ToolRaise(t) ==
    /\ pc[t] = "tool"
    /\ LoopFree(t)
    /\ ThreadRaises(reply[t].tool_calls[idx[t]])
    /\ pc' = [pc EXCEPT ![t] = "raised"]
    /\ exc' = [exc EXCEPT ![t] = "TypeError"]
    /\ out' = NoCall
    /\ UNCHANGED <<TASKS, reply, idx, calls, completed, caller, tool>>

Next ==
    \/ \E p \in Prompts, id \in TaskIds : submit_task(p, id)
    \/ \E id \in QueryIds : Status(id)
    \/ \E t \in DOMAIN TASKS : LoopExit(t)
    \/ \E t \in DOMAIN TASKS : StepBegin(t)
    \/ \E t \in DOMAIN TASKS : ModelFail(t)
    \/ \E t \in DOMAIN TASKS, r \in Replies : StepOnReply(t, r)
    \/ \E t \in DOMAIN TASKS, x \in ToolTexts : ToolDone(t, x)
    \/ \E t \in DOMAIN TASKS : ToolRaise(t)

Spec == Init /\ [][Next]_vars

\* ---------------------------------------------------------------- the repl
\* repl() is a coroutine without an await: between two commands it blocks
\* the event loop's thread in input(), so from its first statement to its
\* return no other callback of the loop runs.  When it returns, asyncio.run
\* cancels every pending task; a task cancelled before its first run gets
\* CancelledError thrown at its first statement and executes nothing.

\* `run <prompt>`
ReplRun(prompt, task_id) == submit_task(prompt, task_id)

\* `status <task_id>`
ReplStatus(task_id) == Status(task_id)

\* `exit`: the loop breaks and repl() returns.
ReplExit ==
    /\ caller = "active"
    /\ caller' = "returned"
    /\ out' = NoCall
    /\ UNCHANGED <<TASKS, pc, exc, reply, idx, calls, completed, tool>>

\* asyncio.run's _cancel_all_tasks reaches the task of t.
Cancelled(t) ==
    /\ caller = "returned"
    /\ pc[t] = "created"
    /\ pc' = [pc EXCEPT ![t] = "cancelled"]
    /\ exc' = [exc EXCEPT ![t] = "CancelledError"]
    /\ UNCHANGED <<TASKS, reply, idx, calls, completed, out, caller, tool>>

NextRepl ==
    \/ \E p \in TypedPrompts, id \in TaskIds : ReplRun(p, id)
    \/ \E id \in QueryIds : ReplStatus(id)
    \/ ReplExit
    \/ \E t \in DOMAIN TASKS : Cancelled(t)

\* The event loop runs a ready callback once the running one has returned.
SpecRepl ==
    /\ Init
    /\ [][NextRepl]_vars
    /\ \A t \in TaskIds : WF_vars(Cancelled(t))

\* ------------------------------------------------------- step() called again
\* agent_loop never calls step() on a done agent; step() itself has no such
\* test.  SpecStep adds a coroutine that awaits agent.step() on an agent
\* whose agent_loop has returned.

\* step() entered on a done agent: the counter is incremented and the model
\* call is awaited, as on any other agent.
DirectStep(t) ==
    /\ caller = "active"
    /\ pc[t] = "exit"
    /\ LoopFree(t)
    /\ TotalCalls < MaxModelCalls
    /\ TASKS' = [TASKS EXCEPT ![t] = CountStep(@)]
    /\ calls' = [calls EXCEPT ![t] = @ + 1]
    /\ pc' = [pc EXCEPT ![t] = "model"]
    /\ reply' = [reply EXCEPT ![t] = NoReply]
    /\ idx' = [idx EXCEPT ![t] = 0]
    /\ out' = NoCall
    /\ UNCHANGED <<exc, completed, caller, tool>>

NextStep ==
    \/ Next
    \/ \E t \in DOMAIN TASKS : DirectStep(t)

SpecStep == Init /\ [][NextStep]_vars


\* ============================================================ shell commands
\* run_bash (v2_async_agent.py) and run_command (easy_cil.py) on a command
\* text.  A text is a sequence of characters.

\* Characters of a command under study, at most.
MaxCmdLen == 4
CmdChars == {"s", "u", "d", "o", "S", "r", "m", " "}

RECURSIVE Texts(_, _)
\* The texts over the characters A of length at most n.
Texts(A, n) ==
    IF n = 0 THEN {<<>>}
    ELSE LET shorter == Texts(A, n - 1)
         IN  shorter \cup { Append(x, c) : x \in { y \in shorter : Len(y) = n - 1 },
                                            c \in A }

Commands == Texts(CmdChars, MaxCmdLen)

\* `d in command`
Contains(d, x) ==
    \E i \in 0..(Len(x) - Len(d)) : SubSeq(x, i + 1, i + Len(d)) = d

\* str.lower(), character by character.
LowerChar(c) ==
    CASE c = "S" -> "s" [] c = "U" -> "u" [] c = "D" -> "d" [] c = "O" -> "o"
      [] c = "R" -> "r" [] c = "M" -> "m" [] OTHER -> c
Lower(x) == [i \in 1..Len(x) |-> LowerChar(x[i])]

\* run_bash: dangerous
dangerous ==
    { <<"r", "m", " ", "-", "r", "f", " ", "/">>,
      <<"s", "u", "d", "o">>,
      <<"s", "h", "u", "t", "d", "o", "w", "n">>,
      <<"r", "e", "b", "o", "o", "t">>,
      <<">", " ", "/", "d", "e", "v", "/">> }

\* easy_cil.py: DANGER_ZONE
DANGER_ZONE ==
    { <<"r", "m", " ">>, <<"d", "e", "l", " ">>, <<"r", "d", " ">>,
      <<"f", "o", "r", "m", "a", "t">>, <<"m", "k", "f", "s">>,
      <<"s", "h", "r", "e", "d">>,
      <<"c", "h", "m", "o", "d", " ", "7", "7", "7">>, <<"c", "h", "o", "w", "n">>,
      <<">", " ", "/", "d", "e", "v", "/">>,
      <<"p", "o", "w", "e", "r", "s", "h", "e", "l", "l", ".", "e", "x", "e">>,
      <<"r", "e", "g", " ", "d", "e", "l", "e", "t", "e">>,
      <<"t", "a", "s", "k", "k", "i", "l", "l">>,
      <<"s", "h", "u", "t", "d", "o", "w", "n">>,
      <<" ", "v", "i", "m">>, <<"n", "a", "n", "o">>, <<"t", "o", "p">>,
      <<"h", "t", "o", "p">>, <<" ", "l", "e", "s", "s">>, <<" ", "m", "o", "r", "e">> }

\* What the user types at `确认执行吗？ (y/n)`, stripped and lower-cased.
Confirms == {"y", "n"}

\* x[:n]
Take(x, n) == SubSeq(x, 1, IF Len(x) < n THEN Len(x) ELSE n)

\* The [:50000] of run_bash and run_read.
ReadBudget == 50000
\* easy_cil.py: MAX_OUTPUT_CHARS
MAX_OUTPUT_CHARS == 500

Whitespace == {" ", "\n", "\r", "\t"}

RECURSIVE lstrip(_)
lstrip(x) == IF x # <<>> /\ x[1] \in Whitespace THEN lstrip(Tail(x)) ELSE x

RECURSIVE rstrip(_)
rstrip(x) ==
    IF x # <<>> /\ x[Len(x)] \in Whitespace THEN rstrip(SubSeq(x, 1, Len(x) - 1)) ELSE x

\* str.strip()
strip(x) == rstrip(lstrip(x))

\* How a spawned process ends: by the timeout, or with an exit code and
\* the text of stdout + stderr.
Ended(rc, output) == [timeout |-> FALSE, rc |-> rc, output |-> output]
TimedOut == [timeout |-> TRUE, rc |-> "", output |-> <<>>]
ProcessEnds == { TimedOut, Ended("0", <<"o">>) }

Blocked == <<"Error: dangerous command blocked">>
UserRefused == <<"refused by the user">>
NoOutput == <<"(no output)">>
\* easy_cil.py: the text appended to a cut output.
Truncated == <<"\n", ".", ".", ".", "(truncated)">>

\* run_bash after subprocess.run: the stripped output cut to the budget.
bash_result(ending) ==
    IF ending.timeout THEN <<"Error: timeout">>
    ELSE LET output == strip(ending.output)
         IN  IF output # <<>> THEN Take(output, ReadBudget) ELSE NoOutput

\* run_bash(command): the process is spawned unless a pattern of
\* `dangerous` occurs in the command as written.
run_bash(command, ending) ==
    IF \E d \in dangerous : Contains(d, command)
    THEN [spawned |-> FALSE, asked |-> FALSE, result |-> Blocked]
    ELSE [spawned |-> TRUE, asked |-> FALSE, result |-> bash_result(ending)]

\* run_command after subprocess.run: the output, cut with the marker when
\* over MAX_OUTPUT_CHARS, behind the exit code.
command_result(ending) ==
    IF ending.timeout THEN <<"(timeout)">>
    ELSE LET output == IF ending.output = <<>> THEN NoOutput ELSE ending.output
             cut == IF Len(output) > MAX_OUTPUT_CHARS
                    THEN Take(output, MAX_OUTPUT_CHARS) \o Truncated
                    ELSE output
         IN  <<"[", "e", "x", "i", "t", " ", ending.rc, "]", "\\", "n">> \o cut

\* run_command(cmd): a pattern of DANGER_ZONE in the lower-cased command
\* asks for confirmation; anything but y returns the refusal text.
run_command(cmd, confirm, ending) ==
    IF \E danger \in DANGER_ZONE : Contains(danger, Lower(cmd))
    THEN IF confirm # "y"
         THEN [spawned |-> FALSE, asked |-> TRUE, result |-> UserRefused]
         ELSE [spawned |-> TRUE, asked |-> TRUE, result |-> command_result(ending)]
    ELSE [spawned |-> TRUE, asked |-> FALSE, result |-> command_result(ending)]

InitBash ==
    /\ AgentInit
    /\ \E c \in Commands : tool = [stage |-> "command", command |-> c]

\* The tool call bash(command) of v2_async_agent.py.
RunBash(ending) ==
    /\ tool.stage = "command"
    /\ tool' = [stage |-> "run_bash", command |-> tool.command, confirm |-> "",
                ran |-> run_bash(tool.command, ending)]
    /\ UNCHANGED agent_vars

\* The tool call run_command(cmd) of easy_cil.py.
RunCommand(confirm, ending) ==
    /\ tool.stage = "command"
    /\ tool' = [stage |-> "run_command", command |-> tool.command,
                confirm |-> confirm,
                ran |-> run_command(tool.command, confirm, ending)]
    /\ UNCHANGED agent_vars

NextBash ==
    \/ \E e \in ProcessEnds : RunBash(e)
    \/ \E k \in Confirms, e \in ProcessEnds : RunCommand(k, e)

SpecBash == InitBash /\ [][NextBash]_vars


\* ================================================================ file tools
\* safe_path, run_read, run_write and run_edit (v2_async_agent.py) on a
\* file system.  A path argument is absolute or relative and a sequence of
\* components; a location is the sequence of names from the root; the file
\* system maps each existing location to a directory or a file's text.

\* Components of a path argument, at most.
MaxPathLen == 3
\* Characters of a text written in the round trip, at most.
MaxTextLen == 3
WORKDIR == <<"w">>
Components == {"..", "w", "a"}

RECURSIVE SeqsUpTo(_, _)
SeqsUpTo(A, n) ==
    IF n = 0 THEN {<<>>}
    ELSE LET shorter == SeqsUpTo(A, n - 1)
         IN  shorter \cup { Append(x, c) : x \in { y \in shorter : Len(y) = n - 1 },
                                            c \in A }

PathArgs == [abs : BOOLEAN, parts : SeqsUpTo(Components, MaxPathLen)]

IsPrefix(a, b) == Len(a) <= Len(b) /\ SubSeq(b, 1, Len(a)) = a

RECURSIVE Walk(_, _)
\* Path.resolve(): the location reached from `at` along the components;
\* `..` at the root stays at the root.
Walk(at, parts) ==
    IF parts = <<>> THEN at
    ELSE LET c == Head(parts)
             next == IF c = ".."
                     THEN (IF at = <<>> THEN at ELSE SubSeq(at, 1, Len(at) - 1))
                     ELSE Append(at, c)
         IN  Walk(next, Tail(parts))

\* WORKDIR / p: an absolute p replaces WORKDIR.
Join(p) == IF p.abs THEN p.parts ELSE WORKDIR \o p.parts

\* Mutant of safe_path: the joined path is tested without resolve().
safe_path_NoResolve(p) ==
    IF IsPrefix(WORKDIR, Join(p))
    THEN [raised |-> FALSE, path |-> Join(p)]
    ELSE [raised |-> TRUE, path |-> <<>>]

\* safe_path(p)
safe_path(p) ==
    LET path == Walk(<<>>, Join(p))
    IN  IF IsPrefix(WORKDIR, path)
        THEN [raised |-> FALSE, path |-> path]
        ELSE [raised |-> TRUE, path |-> <<>>]

Dir == [kind |-> "dir", text |-> <<>>]
File(x) == [kind |-> "file", text |-> x]

Ancestors(at) == { SubSeq(at, 1, k) : k \in 0..(Len(at) - 1) }

\* The location the operating system opens for a path.
Locate(path) == Walk(<<>>, path)

IsFile(fs, at) == at \in DOMAIN fs /\ fs[at].kind = "file"
IsDir(fs, at) == at \in DOMAIN fs /\ fs[at].kind = "dir"

\* Path.mkdir(parents=True, exist_ok=True): raises when the location or an
\* ancestor is a file.
mkdir(fs, at) ==
    LET chain == Ancestors(at) \cup {at}
    IN  IF \E a \in chain : IsFile(fs, a)
        THEN [raised |-> TRUE, fs |-> fs]
        ELSE [raised |-> FALSE,
              fs |-> [x \in DOMAIN fs \cup chain |->
                        IF x \in DOMAIN fs THEN fs[x] ELSE Dir]]

\* Path.write_text: raises on a directory or under a missing directory.
write_text(fs, at, x) ==
    IF at = <<>> \/ IsDir(fs, at) \/ ~IsDir(fs, SubSeq(at, 1, Len(at) - 1))
    THEN [raised |-> TRUE, fs |-> fs]
    ELSE [raised |-> FALSE,
          fs |-> [y \in DOMAIN fs \cup {at} |-> IF y = at THEN File(x) ELSE fs[y]]]

RECURSIVE Universal(_)
\* Reading in text mode with newline=None: \r\n and \r become \n.
Universal(x) ==
    IF \A i \in 1..Len(x) : x[i] # "\r" THEN x
    ELSE IF x[1] = "\r"
    THEN <<"\n">> \o Universal(SubSeq(x, (IF Len(x) > 1 /\ x[2] = "\n" THEN 3 ELSE 2),
                                       Len(x)))
    ELSE <<x[1]>> \o Universal(Tail(x))

\* Path.read_text: raises unless the location is a file.
read_text(fs, at) ==
    IF IsFile(fs, at)
    THEN [raised |-> FALSE, text |-> Universal(fs[at].text)]
    ELSE [raised |-> TRUE, text |-> <<>>]

\* The line boundaries str.splitlines() knows among the characters used.
IsBreak(c) == c \in {"\n", "\r"}

RECURSIVE splitlines(_)
\* str.splitlines(): the lines without their terminators; \r\n is one
\* terminator; no empty last line after a final terminator.
splitlines(x) ==
    IF x = <<>> THEN <<>>
    ELSE LET brk == { i \in 1..Len(x) : IsBreak(x[i]) }
         IN  IF brk = {} THEN <<x>>
             ELSE LET i == CHOOSE j \in brk : \A k \in brk : j <= k
                      w == IF x[i] = "\r" /\ i < Len(x) /\ x[i + 1] = "\n"
                           THEN 2 ELSE 1
                  IN  <<SubSeq(x, 1, i - 1)>> \o splitlines(SubSeq(x, i + w, Len(x)))

RECURSIVE join(_)
\* "\n".join(lines)
join(lines) ==
    IF lines = <<>> THEN <<>>
    ELSE IF Len(lines) = 1 THEN lines[1]
    ELSE lines[1] \o <<"\n">> \o join(Tail(lines))

\* The line run_read appends for the lines it leaves out.
MoreLines(n) == << "... (" \o ToString(n) \o " more lines)" >>

ErrorText == <<"Error: ">>

\* run_read(path, limit); limit 0 stands for None.
run_read(fs, p, limit) ==
    LET sp == safe_path(p)
        rd == read_text(fs, Locate(sp.path))
        lines == splitlines(rd.text)
        shown == IF limit # 0 /\ limit < Len(lines)
                 THEN SubSeq(lines, 1, limit) \o <<MoreLines(Len(lines) - limit)>>
                 ELSE lines
    IN  IF sp.raised \/ rd.raised
        THEN [error |-> TRUE, text |-> ErrorText, fs |-> fs]
        ELSE [error |-> FALSE, text |-> Take(join(shown), ReadBudget), fs |-> fs]

\* run_write(path, content)
run_write(fs, p, content) ==
    LET sp == safe_path(p)
        at == Locate(sp.path)
        md == mkdir(fs, IF at = <<>> THEN at ELSE SubSeq(at, 1, Len(at) - 1))
        wr == write_text(md.fs, at, content)
    IN  IF sp.raised THEN [error |-> TRUE, text |-> ErrorText, fs |-> fs]
        ELSE IF md.raised THEN [error |-> TRUE, text |-> ErrorText, fs |-> md.fs]
        ELSE IF wr.raised THEN [error |-> TRUE, text |-> ErrorText, fs |-> wr.fs]
        ELSE [error |-> FALSE, text |-> <<"Wrote ", ToString(Len(content))>>,
              fs |-> wr.fs]

\* str.replace(old, new, 1)
ReplaceFirst(x, old, new) ==
    LET at == { i \in 0..(Len(x) - Len(old)) : SubSeq(x, i + 1, i + Len(old)) = old }
        i == CHOOSE j \in at : \A k \in at : j <= k
    IN  SubSeq(x, 1, i) \o new \o SubSeq(x, i + Len(old) + 1, Len(x))

\* run_edit(path, old_text, new_text)
run_edit(fs, p, old_text, new_text) ==
    LET sp == safe_path(p)
        at == Locate(sp.path)
        rd == read_text(fs, at)
        wr == write_text(fs, at, ReplaceFirst(rd.text, old_text, new_text))
    IN  IF sp.raised \/ rd.raised
        THEN [error |-> TRUE, text |-> ErrorText, fs |-> fs]
        ELSE IF ~Contains(old_text, rd.text)
        THEN [error |-> TRUE, text |-> <<"Error: not found">>, fs |-> fs]
        ELSE IF wr.raised THEN [error |-> TRUE, text |-> ErrorText, fs |-> wr.fs]
        ELSE [error |-> FALSE, text |-> <<"Edited">>, fs |-> wr.fs]

\* The file systems a tool call starts from: the root and WORKDIR, alone
\* or with a file and a directory inside and a file outside.
StartFs ==
    { [x \in {<<>>, WORKDIR} |-> Dir],
      [x \in {<<>>, WORKDIR, <<"a">>, <<"w", "a">>, <<"w", "w">>} |->
            IF x = <<"a">> THEN File(<<"x">>)
            ELSE IF x = <<"w", "a">> THEN File(<<"x", "\n", "y">>)
            ELSE Dir] }

FileTexts == { <<>>, <<"x">>, <<"y">> }
Limits == {0, 1}

InitFile ==
    /\ AgentInit
    /\ \E fs \in StartFs, p \in PathArgs :
            tool = [stage |-> "path", path |-> p, before |-> fs]

Ran(stage, r) ==
    [stage |-> stage, path |-> tool.path, before |-> tool.before, ran |-> r]

\* The tool call read_file(path, limit).
RunRead(limit) ==
    /\ tool.stage = "path"
    /\ tool' = Ran("read_file", run_read(tool.before, tool.path, limit))
    /\ UNCHANGED agent_vars

\* The tool call write_file(path, content).
RunWrite(content) ==
    /\ tool.stage = "path"
    /\ tool' = Ran("write_file", run_write(tool.before, tool.path, content))
    /\ UNCHANGED agent_vars

\* The tool call edit_file(path, old_text, new_text).
RunEdit(old_text, new_text) ==
    /\ tool.stage = "path"
    /\ tool' = Ran("edit_file", run_edit(tool.before, tool.path, old_text, new_text))
    /\ UNCHANGED agent_vars

NextFile ==
    \/ \E n \in Limits : RunRead(n)
    \/ \E x \in FileTexts : RunWrite(x)
    \/ \E x \in FileTexts, y \in FileTexts : RunEdit(x, y)

SpecFile == InitFile /\ [][NextFile]_vars


\* ---------------------------------------------------------------- round trip
\* write_file(path, X) followed by read_file(path) with no limit, for the
\* path arguments inside the working root and the texts X over a letter
\* and the two line terminators.

TextChars == {"a", "\n", "\r"}
WrittenTexts == SeqsUpTo(TextChars, MaxTextLen)
InsideArgs == { p \in PathArgs : ~safe_path(p).raised }

InitRead ==
    /\ AgentInit
    /\ \E fs \in StartFs, p \in InsideArgs, x \in WrittenTexts :
            tool = [stage |-> "content", path |-> p, before |-> fs, content |-> x]

\* write_file(path, X)
RoundWrite ==
    /\ tool.stage = "content"
    /\ tool' = [stage |-> "written", path |-> tool.path, before |-> tool.before,
                content |-> tool.content,
                wrote |-> run_write(tool.before, tool.path, tool.content)]
    /\ UNCHANGED agent_vars

\* read_file(path) on the file system the write left.
RoundRead ==
    /\ tool.stage = "written"
    /\ tool' = [stage |-> "read back", path |-> tool.path, before |-> tool.before,
                content |-> tool.content, wrote |-> tool.wrote,
                ran |-> run_read(tool.wrote.fs, tool.path, 0)]
    /\ UNCHANGED agent_vars

NextRead == RoundWrite \/ RoundRead

SpecRead == InitRead /\ [][NextRead]_vars


\* ---------------------------------------------------------------- truncation
\* The text a tool returns for an output of a given length: run_bash and
\* run_command on a process that printed it, run_read on a file holding it.
\* The lengths are those at most MaxOver away from nothing and from the
\* two budgets.

\* Characters short of or beyond a budget, at most.
MaxOver == 1

Budgets == {0, MAX_OUTPUT_CHARS, ReadBudget}
OutputLens ==
    { n \in 0..(ReadBudget + MaxOver) : \E b \in Budgets : b - MaxOver <= n /\ n <= b + MaxOver }
Fill == {"a", "b"}
Endings == { <<>>, <<"\n">> }
Outputs == { [i \in 1..n |-> c] \o e : n \in OutputLens, c \in Fill, e \in Endings }

\* A working root holding the one file `a` with the text x.
FsWith(x) ==
    [at \in {<<>>, WORKDIR, <<"w", "a">>} |-> IF at = <<"w", "a">> THEN File(x) ELSE Dir]

InitTrunc ==
    /\ AgentInit
    /\ \E x \in Outputs : tool = [stage |-> "output", output |-> x]

Cut(stage, budget, text) ==
    [stage |-> stage, output |-> tool.output, budget |-> budget, text |-> text]

\* bash(command) of v2_async_agent.py on a command that prints the output.
TruncBash ==
    /\ tool.stage = "output"
    /\ tool' = Cut("run_bash", ReadBudget,
                   run_bash(<<"s">>, Ended("0", tool.output)).result)
    /\ UNCHANGED agent_vars

\* read_file(path) of v2_async_agent.py on a file that holds the output.
TruncRead ==
    /\ tool.stage = "output"
    /\ tool' = Cut("read_file", ReadBudget,
                   run_read(FsWith(tool.output),
                            [abs |-> FALSE, parts |-> <<"a">>], 0).text)
    /\ UNCHANGED agent_vars

\* run_command(cmd) of easy_cil.py on a command that prints the output.
TruncCommand ==
    /\ tool.stage = "output"
    /\ tool' = Cut("run_command", MAX_OUTPUT_CHARS,
                   run_command(<<"s">>, "n", Ended("0", tool.output)).result)
    /\ UNCHANGED agent_vars

NextTrunc == TruncBash \/ TruncRead \/ TruncCommand

SpecTrunc == InitTrunc /\ [][NextTrunc]_vars


\* ------------------------------------------------------- v1 beside v2
\* agent_loop of v1_basic_agent.py run beside the step-driven task t1 on
\* the same conversation, the same model responses and the same tool
\* results.  v2 moves while the two stand at the same place; v1 then takes
\* the input v2 has just taken and catches up.  The state of v1 is in
\* `tool`: its messages, results, reply and tc index, and where it stands.

Both == "t1"

\* Where the step-driven task stands, in the positions of v1's loop.
V2Pos ==
    CASE pc[Both] = "none" -> "none"
      [] pc[Both] = "created" -> "call"
      [] pc[Both] = "sleep" -> (IF TASKS[Both].done THEN "returned" ELSE "call")
      [] pc[Both] = "exit" -> "returned"
      [] OTHER -> pc[Both]

V1None ==
    [stage |-> "v1", pc |-> "none", messages |-> <<>>, results |-> <<>>,
     reply |-> NoReply, idx |-> 0, calls |-> 0]

Synced ==
    /\ tool.pc = V2Pos
    /\ tool.calls = calls[Both]
    /\ tool.idx = idx[Both]

RECURSIVE V1ForLoop(_, _, _)
\* v1's `for tc in reply.tool_calls` from index i until a tool function is
\* called, an exception is raised or the loop ends: the results collected,
\* i and the position.
V1ForLoop(results, tcs, i) ==
    IF i > Len(tcs)
    THEN [results |-> results, idx |-> 0, pc |-> "call"]
    ELSE LET tc == tcs[i]
             args == json_loads(tc.arguments)
         IN  IF args.raised
             THEN [results |-> results, idx |-> i, pc |-> "raised"]
             ELSE LET r == execute_tool(tc.name, args.value)
                  IN  CASE r.kind = "raise" ->
                              [results |-> results, idx |-> i, pc |-> "raised"]
                        [] r.kind = "await" ->
                              [results |-> results, idx |-> i, pc |-> "tool"]
                        [] OTHER ->
                              V1ForLoop(Append(results, ToolTurn(tc, r.text)), tcs, i + 1)

\* v1 after the for loop over the calls of r stopped at f: when the loop
\* has ended, the assistant turn and then the results are added to the
\* messages.
V1After(f, r) ==
    [tool EXCEPT !.reply = r, !.pc = f.pc, !.idx = f.idx,
                 !.results = IF f.pc = "call" THEN <<>> ELSE f.results,
                 !.messages = IF f.pc = "call"
                              THEN Append(@, AssistantCalls(r)) \o f.results
                              ELSE @]

InitEquiv ==
    /\ AgentInit
    /\ tool = V1None

\* The text the step-driven task received for the call v1 is waiting on.
TextGiven ==
    LET msgs == TASKS[Both].messages
        id == tool.reply.tool_calls[tool.idx].id
        at == { i \in 1..Len(msgs) : msgs[i].role = "tool" /\ msgs[i].tool_call_id = id }
    IN  msgs[CHOOSE i \in at : \A k \in at : k <= i].content

\* agent_loop(messages) is called on the conversation the task starts from.
V1Start ==
    /\ tool.pc = "none"
    /\ pc[Both] = "created"
    /\ tool' = [tool EXCEPT !.pc = "call", !.messages = TASKS[Both].messages]
    /\ UNCHANGED agent_vars

\* v1 invokes the model on its messages.
V1Begin ==
    /\ tool.pc = "call"
    /\ pc[Both] = "model"
    /\ tool.calls < calls[Both]
    /\ tool' = [tool EXCEPT !.pc = "model", !.calls = @ + 1, !.reply = NoReply]
    /\ UNCHANGED agent_vars

\* The model call raises in v1: agent_loop has no handler.
V1ModelFail ==
    /\ tool.pc = "model"
    /\ pc[Both] = "raised" /\ exc[Both] = "APIError"
    /\ tool' = [tool EXCEPT !.pc = "raised"]
    /\ UNCHANGED agent_vars

\* The model returns to v1 the response it returned to the task.
V1OnReply ==
    /\ tool.pc = "model"
    /\ pc[Both] # "model" /\ exc[Both] # "APIError"
    /\ LET r == reply[Both]
       IN  IF r.tool_calls = <<>>
           THEN tool' = [tool EXCEPT !.pc = "returned", !.reply = r,
                                     !.messages = Append(@, AssistantFinal(r))]
           ELSE tool' = V1After(V1ForLoop(<<>>, r.tool_calls, 1), r)
    /\ UNCHANGED agent_vars

\* The tool function returns to v1 the text it returned to the task.
V1ToolDone ==
    /\ tool.pc = "tool"
    /\ ~(pc[Both] = "tool" /\ idx[Both] = tool.idx)
    /\ ~(pc[Both] = "raised" /\ exc[Both] = "TypeError" /\ idx[Both] = tool.idx)
    /\ LET tcs == tool.reply.tool_calls
           f == V1ForLoop(Append(tool.results, ToolTurn(tcs[tool.idx], TextGiven)),
                          tcs, tool.idx + 1)
       IN  tool' = V1After(f, tool.reply)
    /\ UNCHANGED agent_vars

\* The tool function raises in v1 as it did in the task.
V1ToolRaise ==
    /\ tool.pc = "tool"
    /\ pc[Both] = "raised" /\ exc[Both] = "TypeError" /\ idx[Both] = tool.idx
    /\ tool' = [tool EXCEPT !.pc = "raised"]
    /\ UNCHANGED agent_vars

NextEquiv ==
    \/ \E p \in TypedPrompts : submit_task(p, Both)
    \/ Synced /\ LoopExit(Both)
    \/ Synced /\ StepBegin(Both)
    \/ Synced /\ ModelFail(Both)
    \/ \E r \in Replies : Synced /\ StepOnReply(Both, r)
    \/ \E x \in ToolTexts : Synced /\ ToolDone(Both, x)
    \/ Synced /\ ToolRaise(Both)
    \/ V1Start
    \/ V1Begin
    \/ V1ModelFail
    \/ V1OnReply
    \/ V1ToolDone
    \/ V1ToolRaise

SpecEquiv == InitEquiv /\ [][NextEquiv]_vars


\* ================================================================== claims
Statuses == {"running", "finished", "failed"}
Terminal == {"finished", "failed"}
Fresh == [status |-> "running", step |-> 0, answer |-> ""]
Status_(t) == TASKS[t].state.status

\* C1: a task's status is always running, finished or failed; a task
\* enters the registry running; a finished or failed status never changes
\* again.
C1_Lifecycle ==
    /\ [](\A t \in DOMAIN TASKS : Status_(t) \in Statuses)
    /\ [][\A t \in TaskIds :
            /\ (t \notin DOMAIN TASKS /\ t \in DOMAIN TASKS')
                    => TASKS'[t].state.status = "running"
            /\ (t \in DOMAIN TASKS /\ Status_(t) \in Terminal)
                    => (t \in DOMAIN TASKS' /\ TASKS'[t].state.status = Status_(t))
         ]_vars

\* C1 witness: a finished task whose driver has returned is queried.
C1_Witness ==
    \E t \in DOMAIN TASKS :
        Status_(t) = "finished" /\ pc[t] = "exit" /\ out.id = t

\* C2: once the model call of a task has raised, the task is failed (and
\* status(taskId) says so).
C2_Claim ==
    \A t \in DOMAIN TASKS :
        exc[t] = "APIError" => get_status(t).status = "failed"

\* The first model response of t had no tool calls: the third turn is an
\* assistant turn without tool_calls.
FirstReplyFinal(t) ==
    /\ Len(TASKS[t].messages) >= 3
    /\ "tool_calls" \notin DOMAIN TASKS[t].messages[3]

\* C3: a task whose first model response has no tool calls is finished
\* after exactly one step: step counter 1, one model invocation ever, the
\* response is the last turn, the answer is its content (None read as the
\* empty text), and the driver does not step the task again.
C3_OneStepFinish ==
    \A t \in DOMAIN TASKS :
        FirstReplyFinal(t) =>
            /\ Status_(t) = "finished"
            /\ TASKS[t].state.step = 1
            /\ calls[t] = 1
            /\ completed[t] = 1
            /\ reply[t].tool_calls = <<>>
            /\ Len(TASKS[t].messages) = 3
            /\ TASKS[t].messages[3] =
                    [role |-> "assistant", content |-> OrEmpty(reply[t].content)]
            /\ TASKS[t].state.answer = OrEmpty(reply[t].content)
            /\ pc[t] \in {"sleep", "exit"}

\* C3 witness: such a task, its driver returned.
C3_Witness ==
    \E t \in DOMAIN TASKS :
        FirstReplyFinal(t) /\ pc[t] = "exit" /\ reply[t].content = "a"

\* C4: when the step that received tool calls c1..cn is over, the
\* conversation ends with the assistant turn carrying them and then
\* exactly n tool turns with the ids c1..cn in order, and the task is
\* running.
C4_Claim ==
    \A t \in DOMAIN TASKS :
        (reply[t].tool_calls # <<>> /\ pc[t] \in {"sleep", "raised"}) =>
            LET tcs == reply[t].tool_calls
                n == Len(tcs)
                m == TASKS[t].messages
                k == Len(m)
            IN  /\ k >= n + 3
                /\ m[k - n].role = "assistant"
                /\ "tool_calls" \in DOMAIN m[k - n]
                /\ m[k - n].tool_calls = tcs
                /\ \A i \in 1..n :
                        /\ m[k - n + i].role = "tool"
                        /\ m[k - n + i].tool_call_id = tcs[i].id
                /\ Status_(t) = "running"

\* C5: submit_task puts a task in the registry that is running at step 0
\* with the conversation [system, user prompt], makes no model call and
\* runs no step; get_status on a known id never answers not found, and on
\* a task whose driver has not run yet answers running at step 0.
C5_SubmitReturnsAtOnce ==
    /\ [][\A id \in TaskIds :
            (id \notin DOMAIN TASKS /\ id \in DOMAIN TASKS') =>
                /\ TASKS'[id].done = FALSE
                /\ TASKS'[id].state = Fresh
                /\ \E p \in Prompts \cup TypedPrompts :
                        TASKS'[id].messages =
                            << [role |-> "system", content |-> SYSTEM],
                               [role |-> "user", content |-> p] >>
                /\ pc'[id] = "created"
                /\ calls' = calls
                /\ completed' = completed
         ]_vars
    /\ [](out.id \in DOMAIN TASKS =>
            /\ "error" \notin DOMAIN out.result
            /\ out.result.status \in Statuses
            /\ out.result.step >= 0
            /\ (pc[out.id] = "created" => out.result = Fresh))

\* C5 witness: a task is queried before its driver has run.
C5_Witness ==
    /\ out.id \in DOMAIN TASKS
    /\ pc[out.id] = "created"
    /\ out.result = Fresh

\* C6: every submitted task (its model ready to answer without tool calls)
\* is eventually finished while the command loop goes on.
C6_Claim ==
    \A t \in TaskIds :
        [](t \in DOMAIN TASKS => <>(t \in DOMAIN TASKS /\ Status_(t) = "finished"))

\* C7: get_status returns the step count of the last completed step.
C7_Claim ==
    out.id \in DOMAIN TASKS => out.result.step = completed[out.id]

\* C8: a model-call failure in one task changes nothing of any other task,
\* and a task awaiting its model afterwards can still receive a response
\* without tool calls.
C8_FailureIsolated ==
    /\ [][\A t \in TaskIds :
            (exc[t] = "none" /\ exc'[t] = "APIError") =>
                /\ DOMAIN TASKS' = DOMAIN TASKS
                /\ \A u \in DOMAIN TASKS \ {t} :
                        /\ TASKS'[u] = TASKS[u]
                        /\ pc'[u] = pc[u]
                        /\ exc'[u] = exc[u]
                        /\ reply'[u] = reply[u]
                        /\ idx'[u] = idx[u]
                        /\ calls'[u] = calls[u]
         ]_vars
    /\ [](\A t \in TaskIds, u \in DOMAIN TASKS :
            (exc[t] = "APIError" /\ pc[u] = "model") =>
                ENABLED StepOnReply(u, [content |-> "a", tool_calls |-> <<>>]))

\* C8 witness: one task ended by a model failure, another finished.
C8_Witness ==
    \E t, u \in DOMAIN TASKS :
        /\ exc[t] = "APIError"
        /\ Status_(u) = "finished"
        /\ pc[u] = "exit"

\* C9: no tool call raises to the step machine.
C9_Claim ==
    \A t \in TaskIds : exc[t] \in {"none", "APIError"}

\* C10: get_status of an id that is not in the registry returns the
\* not-found result and changes nothing.
C10_UnknownIdNotFound ==
    [][(out' # NoCall /\ out' # out /\ out'.id \notin DOMAIN TASKS) =>
            /\ out'.result = NotFound
            /\ UNCHANGED <<TASKS, pc, exc, reply, idx, calls, completed>>
      ]_vars

\* C10 witness: the id no submission returned was queried, with a task in
\* the registry.
C10_Witness ==
    /\ out.id = UnknownId
    /\ out.result = NotFound
    /\ DOMAIN TASKS # {}

\* The denylist of the function that ran, and its fixed rejection text.
DenylistOf(stage) == IF stage = "run_bash" THEN dangerous ELSE DANGER_ZONE
RejectionOf(stage) == IF stage = "run_bash" THEN Blocked ELSE UserRefused

\* C11: a command that contains a denylisted pattern, compared without
\* regard to case, spawns no process unless the confirmation was granted,
\* and a rejected command returns the fixed rejection text.
C11_Claim ==
    (/\ tool.stage \in {"run_bash", "run_command"}
     /\ \E d \in DenylistOf(tool.stage) : Contains(d, Lower(tool.command))
     /\ ~(tool.ran.asked /\ tool.confirm = "y"))
        => /\ ~tool.ran.spawned
           /\ tool.ran.result = RejectionOf(tool.stage)

\* The path argument resolves to a location outside the working root.
Outside(p) == ~IsPrefix(WORKDIR, Walk(<<>>, Join(p)))

\* C12: read_file, write_file and edit_file on a path that resolves outside
\* the working root return an error text and leave the file system as it
\* was.
C12_OutsideRefused ==
    (tool.stage \in {"read_file", "write_file", "edit_file"} /\ Outside(tool.path))
        => /\ tool.ran.error
           /\ tool.ran.text = ErrorText
           /\ tool.ran.fs = tool.before

\* C12 witness: write_file through a relative traversal that ends on the
\* file outside the root.
C12_Witness ==
    /\ tool.stage = "write_file"
    /\ tool.path = [abs |-> FALSE, parts |-> <<"..", "a">>]
    /\ IsFile(tool.before, <<"a">>)
    /\ tool.ran.error

\* C13: write_file(path, X) that succeeds, followed by read_file(path) with
\* no limit, returns exactly X, whatever line terminators X holds.
C13_Claim ==
    (tool.stage = "read back" /\ ~tool.wrote.error /\ Len(tool.content) <= ReadBudget)
        => /\ ~tool.ran.error
           /\ tool.ran.text = tool.content

\* C14: an output longer than the budget is returned as its first budget
\* characters followed by a truncation marker, and an output within the
\* budget is returned unchanged.
C14_Claim ==
    tool.stage \in {"run_bash", "read_file", "run_command"} /\ "budget" \in DOMAIN tool
        => IF Len(tool.output) > tool.budget
           THEN /\ Len(tool.text) > tool.budget
                /\ Take(tool.text, tool.budget) = Take(tool.output, tool.budget)
           ELSE tool.text = tool.output

\* The call ids an assistant turn carries.
CallIds(m) ==
    IF "tool_calls" \in DOMAIN m
    THEN { m.tool_calls[k].id : k \in 1..Len(m.tool_calls) }
    ELSE {}

\* The nearest assistant turn before turn i (0 when there is none).
Owner(msgs, i) ==
    LET before == { j \in 1..(i - 1) : msgs[j].role = "assistant" }
    IN  IF before = {} THEN 0 ELSE CHOOSE j \in before : \A k \in before : k <= j

WellFormed(msgs) ==
    /\ \A i \in 1..Len(msgs) :
            msgs[i].role = "tool"
                => /\ Owner(msgs, i) # 0
                   /\ msgs[i].tool_call_id \in CallIds(msgs[Owner(msgs, i)])
    /\ \A j \in 1..Len(msgs) :
            msgs[j].role = "assistant"
                => \A id \in CallIds(msgs[j]) :
                        Cardinality({ i \in (j + 1)..Len(msgs) :
                                        /\ msgs[i].role = "tool"
                                        /\ Owner(msgs, i) = j
                                        /\ msgs[i].tool_call_id = id }) = 1

\* C15: while the model is invoked for a task, the task's conversation is
\* well-formed: each tool turn answers a call of the nearest assistant turn
\* before it, and each call of each assistant turn has exactly one tool
\* turn before the next assistant turn.
C15_WellFormedAtModelCall ==
    \A t \in DOMAIN TASKS : pc[t] = "model" => WellFormed(TASKS[t].messages)

\* C15 witness: the model is invoked on a conversation that holds an
\* assistant turn with two calls and their two tool turns.
C15_Witness ==
    \E t \in DOMAIN TASKS :
        /\ pc[t] = "model"
        /\ \E j \in 1..Len(TASKS[t].messages) :
                Cardinality(CallIds(TASKS[t].messages[j])) = 2
        /\ Cardinality({ i \in 1..Len(TASKS[t].messages) :
                            TASKS[t].messages[i].role = "tool" }) = 2

\* C16: step() on a task in a terminal state makes no model call and leaves
\* the task's status, step counter, answer and conversation as they were.
C16_Claim ==
    [][\A t \in DOMAIN TASKS :
            TASKS[t].state.status \in Terminal
                => /\ calls'[t] = calls[t]
                   /\ TASKS'[t] = TASKS[t]]_vars

\* C17: every step leaves each task's conversation a prefix of what it
\* becomes, and changes the conversation of the stepping task only.
C17_AppendOnly ==
    [][\A t \in DOMAIN TASKS :
            /\ IsPrefix(TASKS[t].messages, TASKS'[t].messages)
            /\ TASKS'[t].messages # TASKS[t].messages
                    => /\ pc[t] \in {"model", "tool"}
                       /\ \A u \in DOMAIN TASKS \ {t} :
                                TASKS'[u].messages = TASKS[u].messages]_vars

\* C17 witness: one task's conversation has grown by an assistant turn and
\* tool turns, then by a final turn, beside another task's untouched one.
C17_Witness ==
    \E t, u \in DOMAIN TASKS :
        /\ t # u
        /\ Len(TASKS[t].messages) >= 5
        /\ TASKS[t].done
        /\ Len(TASKS[u].messages) = 2

\* C18: each submitted task has one driver, and at most one step() of it
\* is in flight: the steps started are the steps returned, plus the one
\* aborted by an exception, plus the one in flight if the driver is inside
\* step().
InFlight(t) == calls[t] - completed[t] - (IF pc[t] = "raised" THEN 1 ELSE 0)

C18_OneDriver ==
    \A t \in TaskIds :
        /\ t \in DOMAIN TASKS <=> pc[t] # "none"
        /\ InFlight(t) \in {0, 1}
        /\ InFlight(t) = 1 <=> pc[t] \in {"model", "tool"}

\* C18 witness: two tasks, each with its one step in flight, one at its
\* model call and one at a tool execution.
C18_Witness ==
    \E t, u \in DOMAIN TASKS :
        /\ pc[t] = "model" /\ InFlight(t) = 1
        /\ pc[u] = "tool" /\ InFlight(u) = 1

\* A task in the middle of a tool execution, or between two steps of a
\* conversation that goes on requesting tools.
Occupied(t) == pc[t] = "tool" \/ (pc[t] = "sleep" /\ ~TASKS[t].done)

AssistantTurns(t) ==
    Cardinality({ i \in 1..Len(TASKS[t].messages) :
                    TASKS[t].messages[i].role = "assistant" })

\* C20: a task's step counter is the number of model invocations started
\* for it and never decreases; its conversation holds as many assistant
\* turns as the counter says, or one less while a step is in flight or
\* after a step was ended by an exception.
C20_StepCounter ==
    /\ [](\A t \in DOMAIN TASKS :
            /\ TASKS[t].state.step = calls[t]
            /\ AssistantTurns(t) \in {calls[t], calls[t] - 1}
            /\ AssistantTurns(t) = calls[t] - 1 => pc[t] \in {"model", "tool", "raised"})
    /\ [][\A t \in DOMAIN TASKS : TASKS'[t].state.step >= TASKS[t].state.step]_vars

\* C20 witness: a task's second model invocation was ended by an
\* exception: the counter says 2 and the conversation holds one assistant
\* turn.
C20_Witness ==
    \E t \in DOMAIN TASKS :
        /\ TASKS[t].state.step = 2
        /\ AssistantTurns(t) = 1
        /\ pc[t] = "raised"

\* C21: on the same conversation, model responses and tool results, v1's
\* loop and the step-driven task hold equal conversations whenever they
\* are about to invoke the model and when they have ended.
C21_Claim ==
    (tool.stage = "v1" /\ Synced /\ tool.pc \in {"call", "model", "returned", "raised"})
        => tool.messages = TASKS[Both].messages

====
